---- MODULE Spec2Model ----
(***************************************************************************)
(* Gene Summary API: the cache layer (services/cache.py), the protein      *)
(* record client (services/uniprot.py) and the request handlers            *)
(* (routers/gene.py), as state machines; the interaction feed client       *)
(* (services/signor.py), text cleaning and feature extraction              *)
(* (services/uniprot.py) as functions applied to bounded inputs.           *)
(*                                                                         *)
(* Python values are modelled as follows.  None is the string "None"; a    *)
(* normalized document is a string naming it; a serialized document (what  *)
(* json.dumps returns and the primary store holds) is the pair             *)
(* <<"json", d>>, and the primary store's nil reply is <<>>.  A cache key  *)
(* is the pair <<prefix, rest>> standing for the concatenated string.      *)
(* Time is counted in ticks; the default TTL lasts TtlTicks ticks.         *)
(***************************************************************************)
EXTENDS Integers, Sequences, FiniteSets, TLC

\* ------------------------------------------------------------------ bounds
MaxTime == 2
TtlTicks == 2

\* --------------------------------------------------------------- constants
CACHE_PREFIX == "gene_summary:v2"
SIGNOR_CACHE_PREFIX == "signor_v1:"

VARIABLES
    redis,       \* CacheService._redis: "client" or "None"
    memory,      \* CacheService._memory: key -> entry
    redisStore,  \* contents of the primary store: key -> entry
    redisUp,     \* environment: whether the primary store answers
    now,         \* time.time()
    last,        \* observation of the last cache operation
    written,     \* per key, the last set that went to the fallback map,
                 \* and whether the key was deleted since
    uniprot_retries, \* settings.uniprot_retries
    attempt,     \* _query_uniprot: upstream requests issued so far
    outcome,     \* _query_uniprot: how the last upstream request ended
    qState,      \* _query_uniprot: idle, running, or how it ended
    results,     \* the upstream snapshot: the "results" array of the reply
    summary,     \* what fetch_gene_summary gave its caller
    snapshot,    \* upstream: whether the symbol has a canonical record
    req,         \* the requests being handled: position, locals, response
    cached,      \* the last summary a handler stored, while no
                 \* primary-store call has failed since
    respText,    \* the text of the feed service's reply
    feedRows,    \* the rows parsed from the reply, or given to the builders
    built,       \* what fetch_signor_data / _structure_response gave
    sigStage,    \* feed client: idle, body or rows at hand, done
    textIn,      \* the argument of _clean_text
    cleanOut,    \* what _clean_text returned, pass after pass
    entryIn,     \* the comments and features of an upstream entry
    extracted    \* the variants and PTM block extracted from the entry

cacheVars == <<redis, memory, redisStore, redisUp, now, last, written>>
fetchVars == <<uniprot_retries, attempt, outcome, qState, results, summary>>
routerVars == <<snapshot, req, cached>>
signorVars == <<respText, feedRows, built, sigStage>>
textVars == <<textIn, cleanOut>>
featureVars == <<entryIn, extracted>>
vars == <<redis, memory, redisStore, redisUp, now, last, written,
          uniprot_retries, attempt, outcome, qState, results, summary,
          snapshot, req, cached,
          respText, feedRows, built, sigStage,
          textIn, cleanOut, entryIn, extracted>>

\* ------------------------------------------------------------ cache: data
CacheSymbols == {"TP53", "tp53"}
Docs == {"docA", "docB"}

\* str.upper() on the symbols in use.
Upper(s) == IF s = "tp53" THEN "TP53" ELSE s

_key(gene_symbol) == <<CACHE_PREFIX, Upper(gene_symbol)>>

\* The feed summary kept under the gene-summary key family.
SignorKey_Collides(symbol) == _key(symbol)

SignorKey(symbol) == <<SIGNOR_CACHE_PREFIX, symbol>>

Keys == {_key("TP53"), SignorKey("TP53")}

NoEntry == [present |-> FALSE, value |-> "None", expire_at |-> 0]
NoRaw == [present |-> FALSE, raw |-> <<>>, expire_at |-> 0]

\* json.dumps / json.loads on a document.
json_dumps(d) == <<"json", d>>
json_loads(raw) == raw[2]

\* What a call to the primary store does: "ok", or the exception it raises.
RedisErrors == {"ConnectionError", "TimeoutError"}
RedisOutcomes(up) == IF up THEN {"ok"} ELSE RedisErrors

\* A handler that names one error class only.
CaughtByHandler_Narrow(exc) == exc = "ConnectionError"

\* `except Exception` of get/set/delete/get_raw/set_raw: catches every error.
CaughtByHandler(exc) == exc \in RedisErrors

\* redis GET: the stored string while its TTL has not run out, else nil.
RedisGET(key) ==
    IF redisStore[key].present /\ now < redisStore[key].expire_at
    THEN redisStore[key].raw
    ELSE <<>>

\* redis SETEX key ttl value.
RedisSETEX(key, ttl, serialized) ==
    [redisStore EXCEPT ![key] =
        [present |-> TRUE, raw |-> serialized, expire_at |-> now + ttl]]

\* redis DEL key.
RedisDEL(key) == [redisStore EXCEPT ![key] = NoRaw]

\* An entry that is still served at the instant of its expiry.
MemoryLive_AtExpiry(key) == memory[key].present /\ now <= memory[key].expire_at

\* The in-memory fallback read: value while unexpired, else the entry is
\* deleted and the result is None.
MemoryLive(key) == memory[key].present /\ now < memory[key].expire_at

MemoryRead(key) ==
    [result |-> IF MemoryLive(key) THEN memory[key].value ELSE "None",
     memory |-> IF memory[key].present /\ ~MemoryLive(key)
                THEN [memory EXCEPT ![key] = NoEntry]
                ELSE memory]

\* A read of a Degraded instance that still looks the key up in the primary
\* store when that store answers.
ReadThrough_StalePrimary(key, exc) ==
    LET raw == IF exc = "ok" THEN RedisGET(key) ELSE <<>>
        mem == MemoryRead(key)
    IN  [redis |-> redis,
         memory |-> IF raw # <<>> THEN memory ELSE mem.memory,
         redisStore |-> redisStore,
         result |-> IF raw # <<>> THEN json_loads(raw) ELSE mem.result,
         raised |-> FALSE,
         calledPrimary |-> exc = "ok",
         primaryFailed |-> FALSE]

\* The post-state and result of a read through the primary store, then the
\* fallback.  exc is the outcome of the primary-store call, if one is made.
ReadThrough(key, exc) ==
    LET calls == redis # "None"
        failed == calls /\ exc # "ok"
        caught == failed /\ CaughtByHandler(exc)
        propagated == failed /\ ~caught
        raw == IF calls /\ ~failed THEN RedisGET(key) ELSE <<>>
        hit == raw # <<>>
        mem == MemoryRead(key)
    IN  [redis |-> IF caught THEN "None" ELSE redis,
         memory |-> IF propagated \/ hit THEN memory ELSE mem.memory,
         redisStore |-> redisStore,
         result |-> IF propagated THEN "raise"
                    ELSE IF hit THEN json_loads(raw) ELSE mem.result,
         raised |-> propagated,
         calledPrimary |-> calls,
         primaryFailed |-> failed]

\* A write that tries the primary store again whenever it answers, and takes
\* the handle back when the write succeeds.
WriteThrough_Reconnect(key, data, ttl, exc) ==
    LET serialized == json_dumps(data)
        calls == redis # "None" \/ exc = "ok"
        failed == calls /\ exc # "ok"
        stored == calls /\ ~failed
    IN  [redis |-> IF stored THEN "client" ELSE "None",
         memory |-> IF stored THEN memory
                    ELSE [memory EXCEPT ![key] =
                            [present |-> TRUE, value |-> data,
                             expire_at |-> now + ttl]],
         redisStore |-> IF stored THEN RedisSETEX(key, ttl, serialized)
                        ELSE redisStore,
         result |-> "None",
         raised |-> FALSE,
         calledPrimary |-> calls,
         primaryFailed |-> failed]

\* The post-state of a write through the primary store, else the fallback.
WriteThrough(key, data, ttl, exc) ==
    LET serialized == json_dumps(data)
        calls == redis # "None"
        failed == calls /\ exc # "ok"
        caught == failed /\ CaughtByHandler(exc)
        propagated == failed /\ ~caught
        stored == calls /\ ~failed
    IN  [redis |-> IF caught THEN "None" ELSE redis,
         memory |-> IF stored \/ propagated THEN memory
                    ELSE [memory EXCEPT ![key] =
                            [present |-> TRUE, value |-> data,
                             expire_at |-> now + ttl]],
         redisStore |-> IF stored THEN RedisSETEX(key, ttl, serialized)
                        ELSE redisStore,
         result |-> IF propagated THEN "raise" ELSE "None",
         raised |-> propagated,
         calledPrimary |-> calls,
         primaryFailed |-> failed]

CacheGet(gene_symbol, exc) == ReadThrough(_key(gene_symbol), exc)

\* A set that gives up when the primary-store write fails, without writing
\* the fallback map.
CacheSet_NoFallback(gene_symbol, data, ttl, exc) ==
    LET w == WriteThrough(_key(gene_symbol), data, ttl, exc)
    IN  IF w.primaryFailed THEN [w EXCEPT !.memory = memory] ELSE w

CacheSet(gene_symbol, data, ttl, exc) ==
    WriteThrough(_key(gene_symbol), data, ttl, exc)

CacheGetRaw(key, exc) == ReadThrough(key, exc)

\* A set_raw that writes the fallback map also when the primary store took
\* the value.
CacheSetRaw_BothTiers(key, data, ttl, exc) ==
    LET w == WriteThrough(key, data, ttl, exc)
    IN  IF w.raised THEN w
        ELSE [w EXCEPT !.memory = [memory EXCEPT ![key] =
                            [present |-> TRUE, value |-> data,
                             expire_at |-> now + ttl]]]

CacheSetRaw(key, data, ttl, exc) == WriteThrough(key, data, ttl, exc)

\* delete: the primary-store error is swallowed (`except Exception: pass`)
\* and the handle is kept; the key is popped from the fallback map.
CacheDelete(gene_symbol, exc) ==
    LET key == _key(gene_symbol)
        calls == redis # "None"
        failed == calls /\ exc # "ok"
        caught == failed /\ CaughtByHandler(exc)
        propagated == failed /\ ~caught
    IN  [redis |-> redis,
         memory |-> IF propagated THEN memory
                    ELSE [memory EXCEPT ![key] = NoEntry],
         redisStore |-> IF calls /\ ~failed THEN RedisDEL(key)
                        ELSE redisStore,
         result |-> IF propagated THEN "raise" ELSE "None",
         raised |-> propagated,
         calledPrimary |-> calls,
         primaryFailed |-> failed]

\* ---------------------------------------------------------- cache: actions
NoOp == [op |-> "none", key |-> <<>>, data |-> "None",
         result |-> "None", raised |-> FALSE,
         calledPrimary |-> FALSE, primaryFailed |-> FALSE,
         wasConnected |-> FALSE, expired |-> FALSE]

Observe(op, key, data, r) ==
    [op |-> op, key |-> key, data |-> data,
     result |-> r.result, raised |-> r.raised,
     calledPrimary |-> r.calledPrimary, primaryFailed |-> r.primaryFailed,
     wasConnected |-> redis # "None",
     expired |-> memory[key].present /\ ~r.memory[key].present
                 /\ op \in {"get", "get_raw"}]

NotWritten ==
    [present |-> FALSE, value |-> "None", expire_at |-> 0, deleted |-> FALSE]

\* The record of the sets that were written to the fallback map, which set
\* and set_raw do with the default TTL here, and of the deletes after them.
Record(op, key, data, r) ==
    IF op \in {"set", "set_raw"} /\ ~r.raised /\ r.redis = "None"
    THEN [written EXCEPT ![key] =
            [present |-> TRUE, value |-> data,
             expire_at |-> now + TtlTicks, deleted |-> FALSE]]
    ELSE IF op = "delete" /\ ~r.raised /\ written[key].present
    THEN [written EXCEPT ![key].deleted = TRUE]
    ELSE written

Apply(op, key, data, r) ==
    /\ redis' = r.redis
    /\ memory' = r.memory
    /\ redisStore' = r.redisStore
    /\ last' = Observe(op, key, data, r)
    /\ written' = Record(op, key, data, r)
    /\ UNCHANGED <<redisUp, now>>
    /\ UNCHANGED <<fetchVars, routerVars>>
    /\ UNCHANGED <<signorVars, textVars, featureVars>>

\* __init__ / _connect: the handle is kept iff from_url and ping succeed.
CacheInit ==
    /\ redisUp \in BOOLEAN
    /\ redis = IF redisUp THEN "client" ELSE "None"
    /\ memory = [k \in Keys |-> NoEntry]
    /\ redisStore = [k \in Keys |-> NoRaw]
    /\ now = 0
    /\ last = NoOp
    /\ written = [k \in Keys |-> NotWritten]

Get ==
    \E s \in CacheSymbols, exc \in RedisOutcomes(redisUp) :
        Apply("get", _key(s), "None", CacheGet(s, exc))

Set ==
    \E s \in CacheSymbols, d \in Docs, exc \in RedisOutcomes(redisUp) :
        Apply("set", _key(s), d, CacheSet(s, d, TtlTicks, exc))

Delete ==
    \E s \in CacheSymbols, exc \in RedisOutcomes(redisUp) :
        Apply("delete", _key(s), "None", CacheDelete(s, exc))

GetRaw ==
    \E k \in Keys, exc \in RedisOutcomes(redisUp) :
        Apply("get_raw", k, "None", CacheGetRaw(k, exc))

SetRaw ==
    \E k \in Keys, d \in Docs, exc \in RedisOutcomes(redisUp) :
        Apply("set_raw", k, d, CacheSetRaw(k, d, TtlTicks, exc))

\* Environment: time passes; the primary store goes away and comes back.
Tick ==
    /\ now < MaxTime
    /\ now' = now + 1
    /\ UNCHANGED <<redis, memory, redisStore, redisUp, last, written>>
    /\ UNCHANGED <<fetchVars, routerVars>>
    /\ UNCHANGED <<signorVars, textVars, featureVars>>

PrimaryDown ==
    /\ redisUp
    /\ redisUp' = FALSE
    /\ UNCHANGED <<redis, memory, redisStore, now, last, written>>
    /\ UNCHANGED <<fetchVars, routerVars>>
    /\ UNCHANGED <<signorVars, textVars, featureVars>>

PrimaryUp ==
    /\ ~redisUp
    /\ redisUp' = TRUE
    /\ UNCHANGED <<redis, memory, redisStore, now, last, written>>
    /\ UNCHANGED <<fetchVars, routerVars>>
    /\ UNCHANGED <<signorVars, textVars, featureVars>>

CacheNext ==
    \/ Get
    \/ Set
    \/ Delete
    \/ GetRaw
    \/ SetRaw
    \/ Tick
    \/ PrimaryDown
    \/ PrimaryUp

\* ------------------------------------------------- protein record client
MaxRetries == 3
MaxResults == 2

human_organism_id == 9606
SWISS_PROT_TYPE == "UniProtKB reviewed (Swiss-Prot)"
TREMBL_TYPE == "UniProtKB unreviewed (TrEMBL)"
QuerySymbol == "TP53"

\* How one upstream request can end: a 2xx reply, a timeout, another
\* transport failure, or raise_for_status raising HTTPError for a 4xx/5xx.
HttpErrorStatuses == {404, 429, 500}
Outcomes ==
    {[kind |-> "ok", status |-> 200],
     [kind |-> "Timeout", status |-> 0],
     [kind |-> "ConnectionError", status |-> 0]}
    \cup {[kind |-> "HTTPError", status |-> s] : s \in HttpErrorStatuses}
NoOutcome == [kind |-> "none", status |-> 0]

\* requests.Response.__bool__ is Response.ok: False for a 4xx/5xx reply.
ResponseTruthy(status) == status < 400

\* `status = exc.response.status_code if exc.response else None`;
\* <<>> is None.
HttpStatusSeen(o) == IF ResponseTruthy(o.status) THEN <<o.status>> ELSE <<>>

\* The generic handler placed before the HTTPError one: an HTTP error
\* reply is retried like a transport failure.
AttemptResult_RetryHttp(o) ==
    IF o.kind = "ok" THEN "return_doc" ELSE "retry"

\* The except clauses of one attempt, in their order.
AttemptResult(o) ==
    CASE o.kind = "ok" -> "return_doc"
      [] o.kind = "Timeout" -> "retry"
      [] o.kind = "HTTPError" ->
            IF HttpStatusSeen(o) = <<404>> THEN "return_none"
            ELSE "raise_http"
      [] OTHER -> "retry"

\* The setting read as retries on top of a first attempt.
MaxAttempts_PlusOne == uniprot_retries + 1

\* range(1, settings.uniprot_retries + 1): the attempts the loop allows.
MaxAttempts == uniprot_retries

\* An entry of the reply.  annotationScore is <<>> when the key is missing.
EntryKinds ==
    [taxonId : {human_organism_id, 10090},
     entryType : {SWISS_PROT_TYPE, TREMBL_TYPE},
     annotationScore : {<<>>, <<1>>, <<5>>}]

Snapshots ==
    UNION {{[i \in 1..n |->
                [acc |-> i, taxonId |-> f[i].taxonId,
                 entryType |-> f[i].entryType,
                 annotationScore |-> f[i].annotationScore]] :
             f \in [1..n -> EntryKinds]} : n \in 0..MaxResults}

IsHuman(r) == r.taxonId = human_organism_id
IsReviewed(r) == r.entryType = SWISS_PROT_TYPE

\* r.get("annotationScore", 0)
ScoreKey(r) == IF r.annotationScore = <<>> THEN 0 ELSE r.annotationScore[1]

\* A maximum that lets a later element of equal key replace an earlier one.
RECURSIVE PyMax_Last(_)
PyMax_Last(cands) ==
    IF Len(cands) = 1 THEN cands[1]
    ELSE LET rest == PyMax_Last(Tail(cands))
         IN  IF ScoreKey(rest) >= ScoreKey(cands[1]) THEN rest ELSE cands[1]

\* max(candidates, key=...): the first element whose key is the greatest.
RECURSIVE PyMax(_)
PyMax(cands) ==
    IF Len(cands) = 1 THEN cands[1]
    ELSE LET rest == PyMax(Tail(cands))
         IN  IF ScoreKey(rest) > ScoreKey(cands[1]) THEN rest ELSE cands[1]

\* The fields of _normalize that identify the entry it was given.
_normalize(gene_symbol, entry) ==
    [gene_symbol |-> Upper(gene_symbol),
     uniprot_accession |-> entry.acc,
     entry_status |-> entry.entryType,
     annotation_score |-> entry.annotationScore]

NoDoc == [gene_symbol |-> "", uniprot_accession |-> 0,
          entry_status |-> "", annotation_score |-> <<>>]

\* Falling back to the human entries when none is reviewed.
Candidates_Fallback(human_entries) ==
    IF SelectSeq(human_entries, IsReviewed) # <<>>
    THEN SelectSeq(human_entries, IsReviewed)
    ELSE human_entries

\* `candidates = reviewed if reviewed else []`
Candidates(human_entries) == SelectSeq(human_entries, IsReviewed)

\* fetch_gene_summary after _query_uniprot has returned raw (a reply's
\* results, or None).
SelectSummary(gene_symbol, rawIsNone, rs) ==
    LET human_entries == SelectSeq(rs, IsHuman)
        candidates == Candidates(human_entries)
    IN  IF rawIsNone THEN [kind |-> "None", doc |-> NoDoc]
        ELSE IF human_entries = <<>> THEN [kind |-> "None", doc |-> NoDoc]
        ELSE IF candidates = <<>> THEN [kind |-> "None", doc |-> NoDoc]
        ELSE [kind |-> "record",
              doc |-> _normalize(gene_symbol, PyMax(candidates))]

\* What fetch_gene_summary gives once _query_uniprot has ended in state q.
SummaryOf(q) ==
    CASE q = "return_doc" -> SelectSummary(QuerySymbol, FALSE, results)
      [] q = "return_none" -> SelectSummary(QuerySymbol, TRUE, results)
      [] q \in {"raise_http", "raise_exhausted"} ->
            [kind |-> "UniProtServiceError", doc |-> NoDoc]
      [] OTHER -> [kind |-> "pending", doc |-> NoDoc]

FetchIdle ==
    /\ attempt = 0
    /\ outcome = NoOutcome
    /\ qState = "idle"
    /\ summary = [kind |-> "pending", doc |-> NoDoc]

FetchInit ==
    /\ uniprot_retries \in 0..MaxRetries
    /\ results \in Snapshots
    /\ FetchIdle

\* fetch_gene_summary is called: _query_uniprot enters its loop, which ends
\* at once when it allows no attempt.
CallFetch ==
    /\ qState = "idle"
    /\ qState' = IF MaxAttempts < 1 THEN "raise_exhausted" ELSE "running"
    /\ summary' = SummaryOf(qState')
    /\ UNCHANGED <<uniprot_retries, attempt, outcome, results>>
    /\ UNCHANGED <<cacheVars, routerVars>>
    /\ UNCHANGED <<signorVars, textVars, featureVars>>

\* One pass of the loop: a request, and what its outcome leads to.
Attempt ==
    /\ qState = "running"
    /\ attempt < MaxAttempts
    /\ \E o \in Outcomes :
        LET res == AttemptResult(o)
        IN  /\ attempt' = attempt + 1
            /\ outcome' = o
            /\ qState' = IF res # "retry" THEN res
                         ELSE IF attempt + 1 < MaxAttempts THEN "running"
                         ELSE "raise_exhausted"
            /\ summary' = SummaryOf(qState')
    /\ UNCHANGED <<uniprot_retries, results>>
    /\ UNCHANGED <<cacheVars, routerVars>>
    /\ UNCHANGED <<signorVars, textVars, featureVars>>

FetchNext ==
    \/ CallFetch
    \/ Attempt

\* ------------------------------------------------------- request handlers
NumRequests == 2

Requests == 1..NumRequests
Endpoints == {"summary", "exists", "signor"}
RouterSymbol == "TP53"

\* The normalized record of the symbol and the feed summary of its
\* accession, as the fixed upstream snapshot gives them.
GeneDoc == "docA"
SignorDoc == "signorA"

\* fetch_gene_summary(symbol) against the snapshot: the record or None, or
\* UniProtServiceError when the service cannot be used.
UniprotOutcomes ==
    {IF snapshot = "found" THEN GeneDoc ELSE "None", "UniProtServiceError"}

\* fetch_signor_data(accession): a summary, None, or SignorServiceError.
SignorOutcomes == {SignorDoc, "None", "SignorServiceError"}

\* `if cached:` on a document or None.
Truthy(v) == v # "None"

IdleRequest ==
    [pc |-> "idle", endpoint |-> "none", data |-> "None", status |-> 0,
     body |-> "None", upstreamErr |-> FALSE, fetched |-> FALSE,
     missed |-> FALSE, wrote |-> FALSE, covered |-> "None"]

NotStored == [live |-> FALSE, doc |-> "None", expire_at |-> 0]

\* JSONResponse(status_code=..., content=...) / the returned dict.
Respond(q, status, body) ==
    [q EXCEPT !.pc = "done", !.status = status, !.body = body]

RouterInit ==
    /\ snapshot \in {"found", "absent"}
    /\ req = [r \in Requests |-> IdleRequest]
    /\ cached = NotStored

RouterIdle ==
    /\ snapshot = "absent"
    /\ req = [r \in Requests |-> IdleRequest]
    /\ cached = NotStored

\* The effect of a handler's cache call c on the cache.
CacheEffect(c) ==
    /\ redis' = c.redis
    /\ memory' = c.memory
    /\ redisStore' = c.redisStore
    /\ UNCHANGED <<redisUp, now, last, written>>

\* A request arrives and its handler makes its first cache read: get(symbol)
\* for summary and exists, get_raw(signor_key) for signor.
Begin(r) ==
    /\ req[r].pc = "idle"
    /\ \E ep \in Endpoints, exc \in RedisOutcomes(redisUp) :
        LET c == IF ep = "signor"
                 THEN CacheGetRaw(SignorKey(RouterSymbol), exc)
                 ELSE CacheGet(RouterSymbol, exc)
            hit == IF ep = "exists" THEN c.result # "None"
                   ELSE Truthy(c.result)
            q == [IdleRequest EXCEPT
                    !.endpoint = ep,
                    !.missed = ~hit,
                    !.covered =
                        IF ep = "summary" /\ cached.live
                           /\ now < cached.expire_at /\ ~c.primaryFailed
                        THEN cached.doc ELSE "None"]
        IN  /\ CacheEffect(c)
            /\ req' = [req EXCEPT ![r] =
                    IF hit
                    THEN Respond(q, 200,
                            IF ep = "exists" THEN "exists:true"
                            ELSE c.result)
                    ELSE [q EXCEPT !.pc = IF ep = "signor" THEN "resolve"
                                          ELSE "fetch"]]
            /\ cached' = IF c.primaryFailed THEN NotStored ELSE cached
    /\ UNCHANGED <<snapshot, fetchVars>>
    /\ UNCHANGED <<signorVars, textVars, featureVars>>

\* get_signor_data: gene_data = cache_service.get(symbol).
Resolve(r) ==
    /\ req[r].pc = "resolve"
    /\ \E exc \in RedisOutcomes(redisUp) :
        LET c == CacheGet(RouterSymbol, exc)
        IN  /\ CacheEffect(c)
            /\ req' = [req EXCEPT ![r] =
                    IF Truthy(c.result)
                    THEN [@ EXCEPT !.pc = "signor", !.data = c.result]
                    ELSE [@ EXCEPT !.pc = "fetch"]]
            /\ cached' = IF c.primaryFailed THEN NotStored ELSE cached
    /\ UNCHANGED <<snapshot, fetchVars>>
    /\ UNCHANGED <<signorVars, textVars, featureVars>>

\* The handler's call of fetch_gene_summary (gene_exists for exists) and what
\* it does with the result.
FetchUniprot(r) ==
    /\ req[r].pc = "fetch"
    /\ \E out \in UniprotOutcomes :
        LET q == [req[r] EXCEPT
                    !.fetched = TRUE,
                    !.upstreamErr = (out = "UniProtServiceError")]
        IN  req' = [req EXCEPT ![r] =
                CASE q.endpoint = "summary" ->
                        IF out = "UniProtServiceError" THEN Respond(q, 503, "error")
                        ELSE IF out = "None" THEN Respond(q, 404, "error")
                        ELSE [q EXCEPT !.pc = "store", !.data = out]
                  [] q.endpoint = "exists" ->
                        IF out = "UniProtServiceError" THEN Respond(q, 503, "error")
                        ELSE Respond(q, 200,
                                IF out # "None" THEN "exists:true"
                                ELSE "exists:false")
                  [] OTHER ->
                        IF out = "UniProtServiceError" \/ ~Truthy(out)
                        THEN Respond(q, 404, "error")
                        ELSE [q EXCEPT !.pc = "signor", !.data = out]]
    /\ UNCHANGED <<snapshot, cached, cacheVars, fetchVars>>
    /\ UNCHANGED <<signorVars, textVars, featureVars>>

\* get_signor_data: fetch_signor_data(accession) and what follows.
FetchSignor(r) ==
    /\ req[r].pc = "signor"
    /\ \E out \in SignorOutcomes :
        LET q == [req[r] EXCEPT
                    !.upstreamErr = (@ \/ out = "SignorServiceError")]
        IN  req' = [req EXCEPT ![r] =
                IF out = "SignorServiceError" THEN Respond(q, 503, "error")
                ELSE IF out = "None" THEN Respond(q, 200, "empty")
                ELSE [q EXCEPT !.pc = "store", !.data = out]]
    /\ UNCHANGED <<snapshot, cached, cacheVars, fetchVars>>
    /\ UNCHANGED <<signorVars, textVars, featureVars>>

\* Cache store & return: set(symbol, data) for summary, set_raw(signor_key,
\* data) for signor, with the default ttl.
Store(r) ==
    /\ req[r].pc = "store"
    /\ \E exc \in RedisOutcomes(redisUp) :
        LET q == req[r]
            c == IF q.endpoint = "signor"
                 THEN CacheSetRaw(SignorKey(RouterSymbol), q.data, TtlTicks, exc)
                 ELSE CacheSet(RouterSymbol, q.data, TtlTicks, exc)
        IN  /\ CacheEffect(c)
            /\ req' = [req EXCEPT ![r] =
                    Respond([q EXCEPT !.wrote = TRUE], 200, q.data)]
            /\ cached' =
                IF q.endpoint = "summary"
                THEN [live |-> TRUE, doc |-> q.data,
                      expire_at |-> now + TtlTicks]
                ELSE IF c.primaryFailed THEN NotStored ELSE cached
    /\ UNCHANGED <<snapshot, fetchVars>>
    /\ UNCHANGED <<signorVars, textVars, featureVars>>

RouterNext ==
    \/ \E r \in Requests : Begin(r)
    \/ \E r \in Requests : Resolve(r)
    \/ \E r \in Requests : FetchUniprot(r)
    \/ \E r \in Requests : FetchSignor(r)
    \/ \E r \in Requests : Store(r)
    \/ Tick
    \/ PrimaryDown
    \/ PrimaryUp

\* ------------------------------------------------ interaction feed client
\* A Python string is the sequence of its characters, each a one-character
\* string; the empty string is <<>>.  A feed row is a function from the 28
\* column names to strings.  A float is counted in ten-thousandths.
MaxRows == 2
MaxLines == 2

\* str.strip() with no argument removes these from both ends.
Whitespace == {" ", "\t", "\n", "\r"}

RECURSIVE LStrip(_)
LStrip(s) == IF s # <<>> /\ s[1] \in Whitespace THEN LStrip(Tail(s)) ELSE s

RECURSIVE RStrip(_)
RStrip(s) ==
    IF s # <<>> /\ s[Len(s)] \in Whitespace
    THEN RStrip(SubSeq(s, 1, Len(s) - 1))
    ELSE s

Strip(s) == RStrip(LStrip(s))

\* str.split(sep): the pieces between the occurrences of sep, the empty
\* ones included; a string without sep is its own single piece.
RECURSIVE Split(_, _)
Split(s, sep) ==
    IF \E i \in 1..Len(s) : s[i] = sep
    THEN LET i == CHOOSE j \in 1..Len(s) :
                    s[j] = sep /\ \A k \in 1..(j - 1) : s[k] # sep
         IN  <<SubSeq(s, 1, i - 1)>> \o Split(SubSeq(s, i + 1, Len(s)), sep)
    ELSE <<s>>

TSV_COLUMNS ==
    <<"entity_a", "type_a", "id_a", "database_a",
      "entity_b", "type_b", "id_b", "database_b",
      "effect", "mechanism", "residue", "sequence",
      "tax_id", "cell_data", "tissue_data",
      "modulator_complex", "target_complex",
      "modification_a", "modaseq", "modification_b", "modbseq",
      "pmid", "direct", "notes", "annotator", "sentence",
      "signor_id", "score">>

Columns == {TSV_COLUMNS[i] : i \in 1..Len(TSV_COLUMNS)}

ColumnIndex(c) == CHOOSE i \in 1..Len(TSV_COLUMNS) : TSV_COLUMNS[i] = c

\* `if len(parts) < 22: continue`
MinTokens == 22

\* `while len(parts) < len(TSV_COLUMNS): parts.append("")`
Pad(parts) ==
    IF Len(parts) < Len(TSV_COLUMNS)
    THEN parts \o [i \in 1..(Len(TSV_COLUMNS) - Len(parts)) |-> <<>>]
    ELSE parts

\* dict(zip(TSV_COLUMNS, parts)): zip stops at the shorter of the two.
ZipRow(parts) == [c \in Columns |-> parts[ColumnIndex(c)]]

RECURSIVE ParseLines(_)
ParseLines(lines) ==
    IF lines = <<>> THEN <<>>
    ELSE LET parts == Split(Head(lines), "\t")
         IN  IF Len(parts) < MinTokens THEN ParseLines(Tail(lines))
             ELSE <<ZipRow(Pad(parts))>> \o ParseLines(Tail(lines))

\* _fetch_tsv once the reply has arrived with status 2xx.
_fetch_tsv(resp_text) ==
    LET text == Strip(resp_text)
    IN  IF text = <<>> THEN <<>> ELSE ParseLines(Split(text, "\n"))

\* float() of the literals in use; any other string raises ValueError.
float ==
    (<<"0", ".", "8">> :> 8000) @@ (<<"0", ".", "9", "5">> :> 9500)
        @@ (<<"0", ".", "9", "5", "0", "4">> :> 9504)

_safe_float(val) ==
    IF Strip(val) \in DOMAIN float THEN float[Strip(val)] ELSE 0

\* round(x, 3) of a non-negative float that is not half-way between two
\* thousandths.
round3(x) == ((x + 5) \div 10) * 10

\* A group score that takes the score of the last row of the group.
FloatMax_Last(a, b) == b

\* max(a, b): b only when it is greater.
FloatMax(a, b) == IF b > a THEN b ELSE a

\* ord() of the characters that occur in reference ids.
ord ==
    (" " :> 32) @@ ("0" :> 48) @@ ("1" :> 49) @@ ("2" :> 50) @@ ("9" :> 57)

\* str.__lt__: the first differing character decides, a proper prefix is
\* smaller.
RECURSIVE StrLess(_, _)
StrLess(a, b) ==
    IF a = <<>> THEN b # <<>>
    ELSE IF b = <<>> THEN FALSE
    ELSE IF a[1] = b[1] THEN StrLess(Tail(a), Tail(b))
    ELSE ord[a[1]] < ord[b[1]]

\* sorted() of a set of strings.
RECURSIVE sorted(_)
sorted(S) ==
    IF S = {} THEN <<>>
    ELSE LET m == CHOOSE x \in S : \A y \in S : y = x \/ StrLess(x, y)
         IN  <<m>> \o sorted(S \ {m})

GroupKey(row) == <<row.entity_a, row.entity_b, row.effect, row.mechanism>>

\* groups[key] = {...}: the group as its first row creates it.
NewGroup(row) ==
    [key |-> GroupKey(row),
     entity_a |-> row.entity_a, type_a |-> row.type_a, id_a |-> row.id_a,
     entity_b |-> row.entity_b, type_b |-> row.type_b, id_b |-> row.id_b,
     effect |-> row.effect, mechanism |-> row.mechanism,
     score |-> _safe_float(row.score),
     pmids |-> {}, sentences |-> <<>>,
     signor_id |-> row.signor_id]

\* The pmid of the row, and its sentence, are added when the pmid is new.
AddEvidence(g, row) ==
    LET pmid == Strip(row.pmid)
        sentence == Strip(row.sentence)
    IN  IF pmid # <<>> /\ pmid \notin g.pmids
        THEN [g EXCEPT !.pmids = @ \cup {pmid},
                       !.sentences = IF sentence # <<>>
                                     THEN Append(@, sentence) ELSE @]
        ELSE g

\* A later row of a group that replaces the group's descriptive fields.
MergeRow_Overwrite(groups, row) ==
    IF \E i \in 1..Len(groups) : groups[i].key = GroupKey(row)
    THEN LET i == CHOOSE j \in 1..Len(groups) : groups[j].key = GroupKey(row)
             g == [NewGroup(row) EXCEPT
                     !.score = FloatMax(groups[i].score, _safe_float(row.score)),
                     !.pmids = groups[i].pmids,
                     !.sentences = groups[i].sentences]
         IN  [groups EXCEPT ![i] = AddEvidence(g, row)]
    ELSE Append(groups, AddEvidence(NewGroup(row), row))

\* One pass of the loop over the rows; groups is the dict, in insertion
\* order.
MergeRow(groups, row) ==
    IF \E i \in 1..Len(groups) : groups[i].key = GroupKey(row)
    THEN LET i == CHOOSE j \in 1..Len(groups) : groups[j].key = GroupKey(row)
             g == [groups[i] EXCEPT
                     !.score = FloatMax(@, _safe_float(row.score))]
         IN  [groups EXCEPT ![i] = AddEvidence(g, row)]
    ELSE Append(groups, AddEvidence(NewGroup(row), row))

RECURSIVE GroupRows(_, _)
GroupRows(groups, rows) ==
    IF rows = <<>> THEN groups
    ELSE GroupRows(MergeRow(groups, Head(rows)), Tail(rows))

\* g["sentences"][:3]
FirstThree(s) == SubSeq(s, 1, IF Len(s) < 3 THEN Len(s) ELSE 3)

\* The entry appended to result for a group.
Emit(g) ==
    [entity_a |-> g.entity_a, type_a |-> g.type_a, id_a |-> g.id_a,
     entity_b |-> g.entity_b, type_b |-> g.type_b, id_b |-> g.id_b,
     effect |-> g.effect, mechanism |-> g.mechanism,
     score |-> round3(g.score),
     pmids |-> sorted(g.pmids),
     sentences |-> FirstThree(g.sentences),
     signor_id |-> g.signor_id]

\* An insertion that puts an entry before the entries of equal score.
RECURSIVE InsertByScore_BeforeEqual(_, _)
InsertByScore_BeforeEqual(result, e) ==
    IF result = <<>> THEN <<e>>
    ELSE IF Head(result).score > e.score
         THEN <<Head(result)>> \o InsertByScore_BeforeEqual(Tail(result), e)
         ELSE <<e>> \o result

\* list.sort(key=score, reverse=True) is stable: an entry goes after the
\* entries of greater or equal score that precede it.
RECURSIVE InsertByScore(_, _)
InsertByScore(result, e) ==
    IF result = <<>> THEN <<e>>
    ELSE IF Head(result).score >= e.score
         THEN <<Head(result)>> \o InsertByScore(Tail(result), e)
         ELSE <<e>> \o result

RECURSIVE SortByScore(_, _)
SortByScore(done, todo) ==
    IF todo = <<>> THEN done
    ELSE SortByScore(InsertByScore(done, Head(todo)), Tail(todo))

_build_interactions(rows) ==
    LET groups == GroupRows(<<>>, rows)
        result == [i \in 1..Len(groups) |-> Emit(groups[i])]
    IN  SortByScore(<<>>, result)

\* A target test that also takes the rows where the accession is the source.
IsTarget_EitherSide(row, accession) ==
    row.id_b = accession \/ row.id_a = accession

\* `if row["id_b"] != accession: continue`
IsTarget(row, accession) == row.id_b = accession

\* One pass of the loop of _build_modifications over st = (seen, mods).
ModStep(st, row, accession) ==
    LET residue == Strip(row.residue)
        mechanism == Strip(row.mechanism)
        dedup_key == <<row.entity_a, residue, mechanism>>
    IN  IF ~IsTarget(row, accession) THEN st
        ELSE IF residue = <<>> \/ mechanism = <<>> THEN st
        ELSE IF dedup_key \in st.seen THEN st
        ELSE [seen |-> st.seen \cup {dedup_key},
              mods |-> Append(st.mods,
                        [modifier |-> row.entity_a,
                         residue |-> residue,
                         sequence |-> Strip(row.sequence),
                         effect |-> Strip(row.effect),
                         mechanism |-> mechanism])]

RECURSIVE ModRows(_, _, _)
ModRows(st, rows, accession) ==
    IF rows = <<>> THEN st
    ELSE ModRows(ModStep(st, Head(rows), accession), Tail(rows), accession)

_build_modifications(rows, accession) ==
    ModRows([seen |-> {}, mods |-> <<>>], rows, accession).mods

RECURSIVE _resolve_entity_name(_, _)
_resolve_entity_name(rows, accession) ==
    IF rows = <<>> THEN accession
    ELSE IF Head(rows).id_a = accession THEN Head(rows).entity_a
    ELSE IF Head(rows).id_b = accession THEN Head(rows).entity_b
    ELSE _resolve_entity_name(Tail(rows), accession)

\* A summary whose total counts the interaction groups.
_structure_response_CountGroups(rows, accession) ==
    [kind |-> "summary",
     entity_name |-> _resolve_entity_name(rows, accession),
     total_relations |-> Len(_build_interactions(rows)),
     interactions |-> _build_interactions(rows),
     modifications |-> _build_modifications(rows, accession)]

_structure_response(rows, accession) ==
    [kind |-> "summary",
     entity_name |-> _resolve_entity_name(rows, accession),
     total_relations |-> Len(rows),
     interactions |-> _build_interactions(rows),
     modifications |-> _build_modifications(rows, accession)]

NoSummary(kind) ==
    [kind |-> kind, entity_name |-> <<>>, total_relations |-> 0,
     interactions |-> <<>>, modifications |-> <<>>]

\* fetch_signor_data, given how the request ended and the reply's text.
fetch_signor_data(http, resp_text, accession) ==
    IF http # "ok" THEN NoSummary("SignorServiceError")
    ELSE IF _fetch_tsv(resp_text) = <<>> THEN NoSummary("None")
    ELSE _structure_response(_fetch_tsv(resp_text), accession)

\* ------------------------------------------------------ feed: the inputs
QueryAccession == <<"P", "1">>
OtherAccession == <<"Q", "2">>

\* A row with the given fields and every other column empty.
Row(fields) ==
    [c \in Columns |-> IF c \in DOMAIN fields THEN fields[c] ELSE <<>>]

EntityNames == {<<"A">>, <<"B">>}
ScoreStrings == {<<>>, <<"0", ".", "8", " ">>, <<"0", ".", "9", "5">>, <<"0", ".", "9", "5", "0", "4">>}
PmidStrings == {<<>>, <<"1", "0">>, <<"9", " ">>}
ResidueStrings == {<<" ">>, <<"S">>, <<"S", " ">>}
MechanismStrings == {<<>>, <<"p">>}

\* The two sets of descriptive fields a row may carry.
Descriptions ==
    {[type |-> <<"p">>, id_a |-> OtherAccession, id_b |-> QueryAccession,
      signor_id |-> <<"1">>, sentence |-> <<"x">>,
      sequence |-> <<"s">>, effect |-> <<"u">>],
     [type |-> <<"c">>, id_a |-> QueryAccession, id_b |-> OtherAccession,
      signor_id |-> <<"2">>, sentence |-> <<>>,
      sequence |-> <<"t", " ">>, effect |-> <<"d">>]}

\* Rows that differ in what _build_interactions reads: the key (through
\* entity_a), the score, the pmid and the descriptive fields.
InteractionRows ==
    {Row([entity_a |-> a, entity_b |-> <<"M">>, effect |-> <<"u">>,
          mechanism |-> <<"p">>, score |-> sc, pmid |-> p,
          type_a |-> d.type, id_a |-> d.id_a,
          type_b |-> d.type, id_b |-> d.id_b,
          sentence |-> d.sentence, signor_id |-> d.signor_id]) :
        a \in EntityNames, sc \in ScoreStrings, p \in PmidStrings,
        d \in Descriptions}

\* Rows that differ in what _build_modifications reads: the side of the
\* accession, the modifier, the residue, the mechanism, and the sequence
\* and effect.
ModificationRows ==
    {Row([entity_a |-> a, entity_b |-> <<"M">>,
          id_a |-> IF tgt THEN OtherAccession ELSE QueryAccession,
          id_b |-> IF tgt THEN QueryAccession ELSE OtherAccession,
          residue |-> res, mechanism |-> mech,
          sequence |-> d.sequence, effect |-> d.effect]) :
        a \in EntityNames, tgt \in BOOLEAN, res \in ResidueStrings,
        mech \in MechanismStrings, d \in Descriptions}

SeqsUpTo(S, n) == UNION {[1..k -> S] : k \in 0..n}

RowLists == SeqsUpTo(InteractionRows, MaxRows)
               \cup SeqsUpTo(ModificationRows, MaxRows)

\* The token of a column in the bodies in use: one letter per column.
Letters ==
    <<"a", "b", "c", "d", "e", "f", "g", "h", "i", "j", "k", "l", "m", "n",
      "o", "p", "q", "r", "s", "t", "u", "v", "w", "x", "y", "z", "A", "B",
      "C">>

RECURSIVE Join(_, _)
Join(pieces, sep) ==
    IF pieces = <<>> THEN <<>>
    ELSE IF Len(pieces) = 1 THEN pieces[1]
    ELSE pieces[1] \o <<sep>> \o Join(Tail(pieces), sep)

\* A line of n tokens whose first lead and last trail tokens are empty.
Line(n, lead, trail) ==
    Join([c \in 1..n |-> IF c <= lead \/ c > n - trail
                         THEN <<>> ELSE <<Letters[c]>>], "\t")

TokenCounts == {1, 21, 22, 28, 29}

Lines == {Line(n, lead, trail) :
            n \in TokenCounts, lead \in {0, 1}, trail \in {0, 1}}

\* The reply's text: lines joined by newlines, with or without a final one.
Bodies ==
    {Join(ls, "\n") \o end :
        ls \in SeqsUpTo(Lines, MaxLines), end \in {<<>>, <<"\n">>}}

SignorHttp == {"ok", "error"}

\* ----------------------------------------------------- feed: the actions
SignorIdle ==
    /\ respText = <<>>
    /\ feedRows = <<>>
    /\ built = NoSummary("pending")
    /\ sigStage = "idle"

\* _structure_response on a list of rows.
StructureResponse ==
    /\ sigStage = "rows"
    /\ built' = _structure_response(feedRows, QueryAccession)
    /\ sigStage' = "done"
    /\ UNCHANGED <<respText, feedRows>>
    /\ UNCHANGED <<cacheVars, fetchVars, routerVars, textVars, featureVars>>

\* fetch_signor_data on a reply of the feed service.
FetchSignorData ==
    /\ sigStage = "body"
    /\ \E http \in SignorHttp :
        /\ feedRows' = IF http = "ok" THEN _fetch_tsv(respText) ELSE <<>>
        /\ built' = fetch_signor_data(http, respText, QueryAccession)
    /\ sigStage' = "done"
    /\ UNCHANGED respText
    /\ UNCHANGED <<cacheVars, fetchVars, routerVars, textVars, featureVars>>

\* ------------------------------------------------------- text cleaning
MaxPieces == 3
MaxPasses == 2

\* The length of the run of whitespace that starts at position i of s.
RECURSIVE SpaceRun(_, _)
SpaceRun(s, i) ==
    IF i <= Len(s) /\ s[i] \in Whitespace THEN 1 + SpaceRun(s, i + 1) ELSE 0

\* The position of the first occurrence of c in s at or after i, or 0.
RECURSIVE Find(_, _, _)
Find(s, c, i) ==
    IF i > Len(s) THEN 0 ELSE IF s[i] = c THEN i ELSE Find(s, c, i + 1)

\* Where a match of \s* open [^close]+ close that starts at position i of s
\* ends, or 0 when there is none: the whitespace run, the literal open,
\* one character or more up to the first close.
MatchEnd(s, i, open, close) ==
    LET j == i + SpaceRun(s, i)
        k == j + Len(open)
        e == Find(s, close, k)
    IN  IF k - 1 <= Len(s) /\ SubSeq(s, j, k - 1) = open /\ e > k
        THEN e ELSE 0

\* re.sub(pattern, '', s) from position i on: the leftmost match is cut
\* out and the search goes on after it.
RECURSIVE Remove(_, _, _, _)
Remove(s, i, open, close) ==
    IF i > Len(s) THEN <<>>
    ELSE IF MatchEnd(s, i, open, close) > 0
         THEN Remove(s, MatchEnd(s, i, open, close) + 1, open, close)
         ELSE <<s[i]>> \o Remove(s, i + 1, open, close)

\* re.sub(r'\s\s+', ' ', s) from position i on.
RECURSIVE Collapse(_, _)
Collapse(s, i) ==
    IF i > Len(s) THEN <<>>
    ELSE IF SpaceRun(s, i) >= 2
         THEN <<" ">> \o Collapse(s, i + SpaceRun(s, i))
         ELSE <<s[i]>> \o Collapse(s, i + 1)

PUBMED_PAREN == <<"(", "P", "u", "b", "M", "e", "d", ":">>
ECO_BRACE == <<"{", "E", "C", "O", ":">>
PUBMED_BRACKET == <<"[", "P", "u", "b", "M", "e", "d", ":">>
ECO_PAREN == <<"(", "E", "C", "O", ":">>

_clean_text(text) ==
    IF text = <<>> THEN <<>>
    ELSE LET t1 == Remove(text, 1, PUBMED_PAREN, ")")
             t2 == Remove(t1, 1, ECO_BRACE, "}")
             t3 == Remove(t2, 1, PUBMED_BRACKET, "]")
             t4 == Remove(t3, 1, ECO_PAREN, ")")
         IN  Strip(Collapse(t4, 1))

\* The pieces the input texts are put together from.
Pieces ==
    {<<"B", "i", "n", "d", "s">>, <<" ">>, <<"(">>, <<"P", "u", "b", "M", "e", "d", ":", "1", ")">>, <<"(", "E", "C", "O", ":", "1", ")">>,
     <<"{", "E", "C", "O", ":", "1", "}">>, <<"[", "P", "u", "b", "M", "e", "d", ":", "1", "]">>}

RECURSIVE Concat(_)
Concat(pieces) ==
    IF pieces = <<>> THEN <<>> ELSE Head(pieces) \o Concat(Tail(pieces))

Texts == {Concat(ps) : ps \in SeqsUpTo(Pieces, MaxPieces)}

TextIdle ==
    /\ textIn = <<>>
    /\ cleanOut = <<>>

\* _clean_text applied to the text, and then to what it returned.
CleanText ==
    /\ Len(cleanOut) < MaxPasses
    /\ cleanOut' = Append(cleanOut,
                          _clean_text(IF cleanOut = <<>> THEN textIn
                                      ELSE cleanOut[Len(cleanOut)]))
    /\ UNCHANGED textIn
    /\ UNCHANGED <<cacheVars, fetchVars, routerVars, signorVars, featureVars>>

\* ------------------------------------------------- features of an entry
MaxFeatures == 3
MaxComments == 2

NATURAL_VARIANT == "Natural variant"
MODIFIED_RESIDUE == "Modified residue"

\* A feature: its type, the value of its start location when it has one,
\* and its description, which tells the features of an entry apart.
FeatureKinds ==
    [type : {NATURAL_VARIANT, MODIFIED_RESIDUE, "Chain"},
     start : {<<>>, <<5>>, <<9>>}]

FeatureLists ==
    {[i \in 1..Len(ks) |->
        [type |-> ks[i].type, start |-> ks[i].start, description |-> i]] :
        ks \in SeqsUpTo(FeatureKinds, MaxFeatures)}

CommentKinds ==
    {[commentType |-> "PTM", texts |-> <<<<"a">>>>],
     [commentType |-> "PTM", texts |-> <<<<"b", " ", "{", "E", "C", "O", ":", "1", "}">>, <<>>, <<"c">>>>],
     [commentType |-> "FUNCTION", texts |-> <<<<"d">>>>]}

CommentLists == SeqsUpTo(CommentKinds, MaxComments)

\* f.get("location", {}).get("start", {}).get("value", 0)
StartValue(f) == IF f.start = <<>> THEN 0 ELSE f.start[1]

\* An insertion that puts an item before the items of equal position.
RECURSIVE InsertByPosition_BeforeEqual(_, _)
InsertByPosition_BeforeEqual(done, x) ==
    IF done = <<>> THEN <<x>>
    ELSE IF Head(done).position < x.position
         THEN <<Head(done)>> \o InsertByPosition_BeforeEqual(Tail(done), x)
         ELSE <<x>> \o done

\* sorted(items, key=position) is stable: an item goes after the items of
\* smaller or equal position that precede it.
RECURSIVE InsertByPosition(_, _)
InsertByPosition(done, x) ==
    IF done = <<>> THEN <<x>>
    ELSE IF Head(done).position <= x.position
         THEN <<Head(done)>> \o InsertByPosition(Tail(done), x)
         ELSE <<x>> \o done

RECURSIVE SortByPosition(_, _)
SortByPosition(done, todo) ==
    IF todo = <<>> THEN done
    ELSE SortByPosition(InsertByPosition(done, Head(todo)), Tail(todo))

\* The items appended for the features of the given type, in feature order.
ItemsOfType(fs, type) ==
    LET Is(f) == f.type = type
        sel == SelectSeq(fs, Is)
    IN  [i \in 1..Len(sel) |->
            [position |-> StartValue(sel[i]),
             description |-> sel[i].description]]

_extract_variants(entry) ==
    SortByPosition(<<>>, ItemsOfType(entry.features, NATURAL_VARIANT))

\* " ".join of the cleaned texts of a comment, the empty ones left out.
JoinTexts(texts) ==
    LET NonEmpty(t) == t # <<>>
        kept == SelectSeq(texts, NonEmpty)
    IN  Join([i \in 1..Len(kept) |-> _clean_text(kept[i])], " ")

\* The description: that of the first PTM comment, the loop breaks there.
RECURSIVE PtmDescription(_)
PtmDescription(comments) ==
    IF comments = <<>> THEN <<>>
    ELSE IF Head(comments).commentType = "PTM"
         THEN JoinTexts(Head(comments).texts)
         ELSE PtmDescription(Tail(comments))

_extract_ptm(entry) ==
    [description |-> PtmDescription(entry.comments),
     sites |-> SortByPosition(<<>>,
                              ItemsOfType(entry.features, MODIFIED_RESIDUE))]

NotExtracted ==
    [done |-> FALSE, variants |-> <<>>,
     ptm |-> [description |-> <<>>, sites |-> <<>>]]

FeatureIdle ==
    /\ entryIn = [comments |-> <<>>, features |-> <<>>]
    /\ extracted = NotExtracted

\* _normalize's calls of _extract_variants and _extract_ptm on the entry.
ExtractFeatures ==
    /\ ~extracted.done
    /\ extracted' = [done |-> TRUE,
                     variants |-> _extract_variants(entryIn),
                     ptm |-> _extract_ptm(entryIn)]
    /\ UNCHANGED entryIn
    /\ UNCHANGED <<cacheVars, fetchVars, routerVars, signorVars, textVars>>

\* ---------------------------------------------------------- specifications
CacheIdle ==
    /\ redisUp = FALSE
    /\ redis = "None"
    /\ memory = [k \in Keys |-> NoEntry]
    /\ redisStore = [k \in Keys |-> NoRaw]
    /\ now = 0
    /\ last = NoOp
    /\ written = [k \in Keys |-> NotWritten]

\* The pure functions' variables at rest.
PureIdle == SignorIdle /\ TextIdle /\ FeatureIdle

SpecCacheInit ==
    /\ CacheInit
    /\ uniprot_retries = 0
    /\ results = <<>>
    /\ FetchIdle
    /\ RouterIdle
    /\ PureIdle

SpecCacheNext == CacheNext

SpecCache == SpecCacheInit /\ [][SpecCacheNext]_vars

SpecFetchInit == FetchInit /\ CacheIdle /\ RouterIdle /\ PureIdle

SpecFetchNext == FetchNext

SpecFetch == SpecFetchInit /\ [][SpecFetchNext]_vars

SpecRouterInit ==
    /\ CacheInit
    /\ RouterInit
    /\ uniprot_retries = 0
    /\ results = <<>>
    /\ FetchIdle
    /\ PureIdle

SpecRouterNext == RouterNext

SpecRouter == SpecRouterInit /\ [][SpecRouterNext]_vars

\* The other components at rest.
RestIdle ==
    /\ CacheIdle
    /\ uniprot_retries = 0
    /\ results = <<>>
    /\ FetchIdle
    /\ RouterIdle

\* _structure_response and its builders on every list of rows.
SpecSignorInit ==
    /\ feedRows \in RowLists
    /\ respText = <<>>
    /\ built = NoSummary("pending")
    /\ sigStage = "rows"
    /\ TextIdle /\ FeatureIdle /\ RestIdle

SpecSignorNext == StructureResponse

SpecSignor == SpecSignorInit /\ [][SpecSignorNext]_vars

\* fetch_signor_data on every reply.
SpecFeedInit ==
    /\ respText \in Bodies
    /\ feedRows = <<>>
    /\ built = NoSummary("pending")
    /\ sigStage = "body"
    /\ TextIdle /\ FeatureIdle /\ RestIdle

SpecFeedNext == FetchSignorData

SpecFeed == SpecFeedInit /\ [][SpecFeedNext]_vars

\* _clean_text on every text, and on what it returns.
SpecTextInit ==
    /\ textIn \in Texts
    /\ cleanOut = <<>>
    /\ SignorIdle /\ FeatureIdle /\ RestIdle

SpecTextNext == CleanText

SpecText == SpecTextInit /\ [][SpecTextNext]_vars

\* _extract_variants and _extract_ptm on every entry.
SpecFeaturesInit ==
    /\ entryIn \in [comments : CommentLists, features : FeatureLists]
    /\ extracted = NotExtracted
    /\ SignorIdle /\ TextIdle /\ RestIdle

SpecFeaturesNext == ExtractFeatures

SpecFeatures == SpecFeaturesInit /\ [][SpecFeaturesNext]_vars

\* =================================================================== claims
\* A step taken by a cache operation: the environment's steps change the
\* clock or the reachability of the primary store, the operations neither.
IsCacheStep == now' = now /\ redisUp' = redisUp

ReadOps == {"get", "get_raw"}
WriteOps == {"set", "set_raw"}

\* C1: once the instance is Degraded (the handle is None), it stays Degraded,
\* and no operation calls the primary store or changes its contents, also
\* while the primary store is reachable again.
C1_DegradedIsPermanent ==
    [][redis = "None" =>
        /\ redis' = "None"
        /\ redisStore' = redisStore
        /\ (IsCacheStep => ~last'.calledPrimary)]_vars

\* C1 witness: an operation ran on a Degraded instance while the primary
\* store was reachable, and did not call it.
C1_Witness ==
    /\ redis = "None"
    /\ redisUp
    /\ last.op = "set"
    /\ ~last.wasConnected
    /\ ~last.calledPrimary

\* C2 (as claimed): after any operation whose primary-store call raised, the
\* instance is Degraded.
C2_FailureDegrades == last.primaryFailed => redis = "None"

\* C3: an operation whose primary-store call raises returns normally; a read
\* returns what the fallback lookup gives (the unexpired value, else None,
\* dropping an expired entry), a write leaves the entry in the fallback map
\* and a delete leaves the key out of it.
C3_ErrorsAbsorbed ==
    [][(IsCacheStep /\ last'.primaryFailed) =>
        LET k == last'.key
            live == memory[k].present /\ now < memory[k].expire_at
        IN  /\ ~last'.raised
            /\ last'.op \in ReadOps =>
                /\ last'.result = IF live THEN memory[k].value ELSE "None"
                /\ memory' = IF live THEN memory
                             ELSE [memory EXCEPT ![k] = NoEntry]
            /\ last'.op \in WriteOps =>
                /\ last'.result = "None"
                /\ memory' = [memory EXCEPT ![k] =
                                [present |-> TRUE, value |-> last'.data,
                                 expire_at |-> now + TtlTicks]]
            /\ last'.op = "delete" =>
                /\ last'.result = "None"
                /\ memory' = [memory EXCEPT ![k] = NoEntry]]_vars

\* C3 witness: a set_raw whose primary-store call raised has returned and
\* its entry is in the fallback map.
C3_Witness ==
    /\ last.op = "set_raw"
    /\ last.primaryFailed
    /\ ~last.raised
    /\ memory[last.key].present
    /\ memory[last.key].value = last.data

Retryable(o) == o.kind \in {"Timeout", "ConnectionError"}
QueryEnded == qState \in {"return_doc", "return_none", "raise_http",
                          "raise_exhausted"}

\* C4 (as claimed): when an attempt is answered with HTTP 404, _query_uniprot
\* returns None and fetch_gene_summary yields NotFound.
C4_NotFoundOn404 ==
    (outcome.kind = "HTTPError" /\ outcome.status = 404) =>
        (qState = "return_none" /\ summary.kind = "None")

C6_HttpErrorNotRetried ==
    [][/\ (attempt' = attempt + 1 /\ outcome'.kind = "HTTPError"
            /\ outcome'.status # 404) =>
                (qState' = "raise_http"
                 /\ summary'.kind = "UniProtServiceError")
       /\ qState = "raise_http" => (attempt' = attempt /\ qState' = qState)
      ]_vars

\* C6 witness: a first attempt answered 500 has raised while attempts remain.
C6_Witness ==
    /\ outcome = [kind |-> "HTTPError", status |-> 500]
    /\ qState = "raise_http"
    /\ attempt = 1
    /\ uniprot_retries >= 2

Qualifies(r) == r.taxonId = 9606 /\ r.entryType = "UniProtKB reviewed (Swiss-Prot)"

\* C10: fetch_gene_summary returns a record only if some entry of the result
\* set is human and reviewed, and the record is normalized from such an
\* entry; when the reply has no such entry the result is NotFound.
C10_OnlyHumanReviewed ==
    /\ summary.kind = "record" =>
        \E i \in 1..Len(results) :
            /\ Qualifies(results[i])
            /\ summary.doc.uniprot_accession = results[i].acc
            /\ summary.doc.entry_status = results[i].entryType
            /\ summary.doc.annotation_score = results[i].annotationScore
    /\ (qState = "return_doc"
        /\ ~ \E i \in 1..Len(results) : Qualifies(results[i])) =>
            summary.kind = "None"

\* C10 witness: the reply held a human unreviewed entry and a reviewed entry
\* of another organism, and the result is NotFound.
C10_Witness ==
    /\ qState = "return_doc"
    /\ summary.kind = "None"
    /\ \E i \in 1..Len(results) :
        results[i].taxonId = 9606 /\ results[i].entryType = TREMBL_TYPE
    /\ \E i \in 1..Len(results) :
        results[i].taxonId # 9606 /\ results[i].entryType = SWISS_PROT_TYPE

\* C7: a summary request whose cache read comes after a summary was fetched
\* and stored, before that entry's TTL has run out and with no primary-store
\* failure since the store (this read included), is answered 200 from the
\* cache with the stored document and makes no upstream query.
C7_RepeatServedFromCache ==
    \A r \in Requests :
        req[r].covered # "None" =>
            /\ req[r].pc = "done"
            /\ req[r].status = 200
            /\ req[r].body = req[r].covered
            /\ ~req[r].missed
            /\ ~req[r].fetched

\* C7 witness: one request fetched and stored the record, and a later one
\* was answered from the cache without a fetch.
C7_Witness ==
    \E r1, r2 \in Requests :
        /\ req[r1].endpoint = "summary" /\ req[r1].wrote
        /\ req[r2].endpoint = "summary" /\ req[r2].covered = GeneDoc
        /\ req[r2].pc = "done" /\ ~req[r2].fetched

\* C8 (as claimed): a request during which an upstream call ended in
\* UniProtServiceError or SignorServiceError is answered 503.
C8_UpstreamErrorIs503 ==
    \A r \in Requests :
        (req[r].pc = "done" /\ req[r].upstreamErr) => req[r].status = 503

\* C9: under every interleaving of concurrent summary requests against a
\* fixed snapshot, the cache entry of the symbol's key is absent or the
\* normalized record of the snapshot, in either store; every request that
\* missed and was answered 200 made its own fetch and its own write; and
\* every summary request answered 200 returns that record.
C9_ConcurrentMissesAgree ==
    /\ memory[_key(RouterSymbol)].present =>
            memory[_key(RouterSymbol)].value = GeneDoc
    /\ redisStore[_key(RouterSymbol)].present =>
            redisStore[_key(RouterSymbol)].raw = json_dumps(GeneDoc)
    /\ \A r \in Requests :
        (req[r].endpoint = "summary" /\ req[r].pc = "done"
         /\ req[r].status = 200) =>
            /\ req[r].body = GeneDoc
            /\ req[r].missed => (req[r].fetched /\ req[r].wrote)
    /\ \A r \in Requests :
        (req[r].endpoint = "summary" /\ req[r].pc = "done"
         /\ ~req[r].upstreamErr) =>
            req[r].status = IF snapshot = "found" THEN 200 ELSE 404

\* C9 witness: two summary requests both missed, both fetched and both
\* wrote, and both returned the record.
C9_Witness ==
    \E r1, r2 \in Requests :
        /\ r1 # r2
        /\ \A r \in {r1, r2} :
            /\ req[r].endpoint = "summary" /\ req[r].pc = "done"
            /\ req[r].missed /\ req[r].fetched /\ req[r].wrote
            /\ req[r].body = GeneDoc

\* C11: among the human, reviewed entries the record is normalized from the
\* entry of greatest annotation score, an absent score counting as 0, and
\* among several entries of that greatest score from the one that comes
\* first in the result set.
ScoreOrZero(r) == IF r.annotationScore = <<>> THEN 0 ELSE r.annotationScore[1]

C11_FirstOfGreatestScore ==
    summary.kind = "record" =>
        \E i \in 1..Len(results) :
            /\ Qualifies(results[i])
            /\ summary.doc.uniprot_accession = results[i].acc
            /\ \A j \in 1..Len(results) :
                Qualifies(results[j]) =>
                    /\ ScoreOrZero(results[j]) <= ScoreOrZero(results[i])
                    /\ j < i =>
                        ScoreOrZero(results[j]) < ScoreOrZero(results[i])

\* C11 witness: two human, reviewed entries share the greatest score and the
\* record comes from the earlier one.
C11_Witness ==
    /\ summary.kind = "record"
    /\ \E i, j \in 1..Len(results) :
        /\ i < j
        /\ Qualifies(results[i]) /\ Qualifies(results[j])
        /\ ScoreOrZero(results[i]) = ScoreOrZero(results[j])
        /\ summary.doc.uniprot_accession = results[i].acc
        /\ summary.doc.annotation_score = results[i].annotationScore

\* C12: in Degraded mode a get or get_raw of a key whose stored expiry time
\* is at or before the current time returns absent and removes that entry
\* from the in-process map; of a key whose expiry time is later it returns
\* the stored value and leaves the map as it is; and an entry of the map is
\* removed or changed only by a read, a set or a delete of its own key.
C12_DegradedExpiry ==
    [][/\ (IsCacheStep /\ redis = "None" /\ last'.op \in ReadOps) =>
            LET k == last'.key
            IN  /\ (memory[k].present /\ memory[k].expire_at <= now) =>
                     /\ last'.result = "None"
                     /\ memory' = [memory EXCEPT ![k] = NoEntry]
                /\ (memory[k].present /\ memory[k].expire_at > now) =>
                     /\ last'.result = memory[k].value
                     /\ memory' = memory
       /\ \A k \in Keys :
            memory'[k] # memory[k] =>
                /\ IsCacheStep
                /\ last'.key = k
                /\ last'.op \in ReadOps \cup WriteOps \cup {"delete"}]_vars

\* C12 witness: a Degraded read has just found its entry expired and removed
\* it, at the very instant of expiry, while another key's entry is kept.
C12_Witness ==
    /\ redis = "None"
    /\ ~last.wasConnected
    /\ last.op \in ReadOps
    /\ last.expired
    /\ last.result = "None"
    /\ ~memory[last.key].present
    /\ \E k \in Keys : k # last.key /\ memory[k].present

\* The rows of a group, and the first of them.
RowsOfKey(k) == {i \in 1..Len(feedRows) : GroupKey(feedRows[i]) = k}
FirstRowOfKey(k) ==
    CHOOSE i \in RowsOfKey(k) : \A j \in RowsOfKey(k) : i <= j
EntryKey(e) == <<e.entity_a, e.entity_b, e.effect, e.mechanism>>
Built == sigStage = "done" /\ built.kind = "summary"

\* C13: _build_interactions emits exactly one entry for each distinct
\* (entity_a, entity_b, effect, mechanism) key of the rows; the entry's score
\* is the greatest parsed score of the group's rows (0.0 for an empty or
\* unparsable score) rounded to three decimals, and its pmids are the
\* distinct non-empty trimmed pmids of the group's rows in lexicographic
\* order.
C13_OneEntryPerKey ==
    Built =>
        LET out == built.interactions
            keys == {GroupKey(feedRows[i]) : i \in 1..Len(feedRows)}
        IN  /\ Len(out) = Cardinality(keys)
            /\ \A k \in keys :
                \E n \in 1..Len(out) :
                    LET e == out[n]
                        scores == {_safe_float(feedRows[i].score) :
                                      i \in RowsOfKey(k)}
                        best == CHOOSE m \in scores : \A x \in scores : x <= m
                    IN  /\ EntryKey(e) = k
                        /\ e.score % 10 = 0
                        /\ e.score - best < 5 /\ best - e.score < 5
                        /\ {e.pmids[p] : p \in 1..Len(e.pmids)} =
                             {Strip(feedRows[i].pmid) : i \in RowsOfKey(k)}
                                \ {<<>>}
                        /\ \A p, q \in 1..Len(e.pmids) :
                             p < q => StrLess(e.pmids[p], e.pmids[q])

\* C13 witness: two rows of one group, the first with the greater score and
\* the pmid that sorts last, the second with an empty score; the one entry
\* has the rounded greater score and the two trimmed pmids in order.
C13_Witness ==
    /\ Built
    /\ Len(feedRows) = 2
    /\ GroupKey(feedRows[1]) = GroupKey(feedRows[2])
    /\ feedRows[1].score = <<"0", ".", "9", "5", "0", "4">> /\ feedRows[2].score = <<>>
    /\ feedRows[1].pmid = <<"9", " ">> /\ feedRows[2].pmid = <<"1", "0">>
    /\ Len(built.interactions) = 1
    /\ built.interactions[1].score = 9500
    /\ built.interactions[1].pmids = <<<<"1", "0">>, <<"9">>>>

\* C14: the descriptive fields of an entry (type_a, id_a, type_b, id_b and
\* signor_id) are those of the first row with the entry's key; later rows of
\* the group leave them as they are.
C14_FirstRowDescribes ==
    Built =>
        \A n \in 1..Len(built.interactions) :
            LET e == built.interactions[n]
                first == feedRows[FirstRowOfKey(EntryKey(e))]
            IN  /\ RowsOfKey(EntryKey(e)) # {}
                /\ e.type_a = first.type_a
                /\ e.id_a = first.id_a
                /\ e.type_b = first.type_b
                /\ e.id_b = first.id_b
                /\ e.signor_id = first.signor_id

\* C14 witness: a later row of the group differs from the first in every
\* descriptive field and raises the group's score and pmids, and the entry
\* describes the first row.
C14_Witness ==
    /\ Built
    /\ Len(feedRows) = 2
    /\ GroupKey(feedRows[1]) = GroupKey(feedRows[2])
    /\ feedRows[1].type_a # feedRows[2].type_a
    /\ feedRows[1].id_a # feedRows[2].id_a
    /\ feedRows[1].id_b # feedRows[2].id_b
    /\ feedRows[1].signor_id # feedRows[2].signor_id
    /\ _safe_float(feedRows[1].score) < _safe_float(feedRows[2].score)
    /\ Len(built.interactions) = 1
    /\ built.interactions[1].signor_id = feedRows[1].signor_id
    /\ built.interactions[1].score = round3(_safe_float(feedRows[2].score))
    /\ Len(built.interactions[1].pmids) = 2

\* C15: the interaction list is ordered by rounded score descending, and
\* entries of equal score are in the order in which their groups were first
\* met in the rows.
C15_ScoreDescendingStable ==
    Built =>
        \A m, n \in 1..Len(built.interactions) :
            m < n =>
                LET a == built.interactions[m]
                    b == built.interactions[n]
                IN  /\ a.score >= b.score
                    /\ a.score = b.score =>
                         FirstRowOfKey(EntryKey(a)) < FirstRowOfKey(EntryKey(b))

\* C15 witness: two groups whose scores differ before rounding and are equal
\* after it, listed in the order of their first rows, the smaller raw score
\* first.
C15_Witness ==
    /\ Built
    /\ Len(feedRows) = 2
    /\ feedRows[1].score = <<"0", ".", "9", "5">> /\ feedRows[2].score = <<"0", ".", "9", "5", "0", "4">>
    /\ Len(built.interactions) = 2
    /\ built.interactions[1].score = built.interactions[2].score
    /\ EntryKey(built.interactions[1]) = GroupKey(feedRows[1])
    /\ EntryKey(built.interactions[2]) = GroupKey(feedRows[2])

\* The rows that count for the modification list, their triples, and the
\* first row of each triple.
Counts(i) ==
    /\ feedRows[i].id_b = QueryAccession
    /\ Strip(feedRows[i].residue) # <<>>
    /\ Strip(feedRows[i].mechanism) # <<>>
Triple(i) ==
    <<feedRows[i].entity_a, Strip(feedRows[i].residue),
      Strip(feedRows[i].mechanism)>>
FirstOfTriple ==
    {i \in 1..Len(feedRows) :
        /\ Counts(i)
        /\ \A j \in 1..(i - 1) : Counts(j) => Triple(j) # Triple(i)}

\* C16: _build_modifications returns, in input order, exactly one entry for
\* each distinct (entity_a, residue, mechanism) triple among the rows whose
\* id_b is the queried accession and whose residue and mechanism are not
\* empty once trimmed; the entry's sequence and effect are those of the first
\* such row of the triple; every other row contributes nothing.
C16_ModificationsFromTargetRows ==
    Built =>
        LET mods == built.modifications
        IN  /\ Len(mods) = Cardinality(FirstOfTriple)
            /\ \E f \in [1..Len(mods) -> 1..Len(feedRows)] :
                /\ \A k \in 1..Len(mods) : f[k] \in FirstOfTriple
                /\ \A k, l \in 1..Len(mods) : k < l => f[k] < f[l]
                /\ \A k \in 1..Len(mods) :
                    /\ <<mods[k].modifier, mods[k].residue,
                         mods[k].mechanism>> = Triple(f[k])
                    /\ mods[k].sequence = Strip(feedRows[f[k]].sequence)
                    /\ mods[k].effect = Strip(feedRows[f[k]].effect)

\* C16 witness: two counting rows of one triple, which differ in the
\* untrimmed residue, the sequence and the effect: one
\* entry, with the sequence and effect of the first counting row.
C16_Witness ==
    /\ Built
    /\ Len(feedRows) = 2
    /\ Counts(1) /\ Counts(2)
    /\ Triple(1) = Triple(2)
    /\ feedRows[1].residue # feedRows[2].residue
    /\ feedRows[1].sequence # feedRows[2].sequence
    /\ feedRows[1].effect # feedRows[2].effect
    /\ Len(built.modifications) = 1
    /\ built.modifications[1].sequence = Strip(feedRows[1].sequence)
    /\ built.modifications[1].effect = Strip(feedRows[1].effect)

\* The tokens of a line, and the row that holds them in column order,
\* right-padded with empty strings.
Tokens(line) == Split(line, "\t")
RowOfTokens(t) ==
    [c \in Columns |->
        IF ColumnIndex(c) <= Len(t) THEN t[ColumnIndex(c)] ELSE <<>>]
Retained(line) == Len(Tokens(line)) >= 22
Parsed == sigStage = "done" /\ built.kind # "SignorServiceError"

\* C17: each newline-separated line of the reply's body that has at least 22
\* tab-separated tokens yields exactly one row, in line order, whose 28
\* fields are the line's tokens in column order right-padded with empty
\* strings, and each line with fewer than 22 tokens yields no row.
C17_RowsAreTheLines ==
    Parsed =>
        LET kept == SelectSeq(Split(respText, "\n"), Retained)
        IN  feedRows = [i \in 1..Len(kept) |-> RowOfTokens(Tokens(kept[i]))]

\* C18: total_relations is the number of parsed rows: every retained row
\* counts, those padded from 22 to 27 tokens too, no dropped line counts, and
\* the number does not depend on how many groups the rows fall into, so it is
\* never less than the length of the interaction list.
C18_TotalIsRowCount ==
    Built =>
        LET lines == Split(Strip(respText), "\n")
        IN  /\ built.total_relations = Len(feedRows)
            /\ built.total_relations =
                 Cardinality({i \in 1..Len(lines) : Retained(lines[i])})
            /\ built.total_relations >= Len(built.interactions)

\* C18 witness: a line of 22 tokens and a line of 28 tokens are both
\* retained and fall into one group; the total is 2 and the interaction list
\* has one entry.
C18_Witness ==
    /\ Built
    /\ respText = Line(22, 0, 0) \o <<"\n">> \o Line(28, 0, 0)
    /\ built.total_relations = 2
    /\ Len(built.interactions) = 1

\* C19: text cleaning is idempotent: cleaning what _clean_text returned
\* returns it unchanged, also where markers of different kinds are nested in
\* or adjacent to one another.
C19_CleanTextIdempotent ==
    Len(cleanOut) >= 2 => cleanOut[2] = cleanOut[1]

\* The features of a type, by their place in the feature list.
FeaturesOfType(type) ==
    {i \in 1..Len(entryIn.features) : entryIn.features[i].type = type}

\* One item per feature of the type, in ascending position, features of
\* equal position in feature-list order.
OnePerFeatureSorted(items, type) ==
    /\ Len(items) = Cardinality(FeaturesOfType(type))
    /\ {items[k].description : k \in 1..Len(items)} = FeaturesOfType(type)
    /\ \A k \in 1..Len(items) :
        items[k].position =
            LET f == entryIn.features[items[k].description]
            IN  IF f.start = <<>> THEN 0 ELSE f.start[1]
    /\ \A k, l \in 1..Len(items) :
        k < l =>
            /\ items[k].position <= items[l].position
            /\ items[k].position = items[l].position =>
                 items[k].description < items[l].description

\* C20: the variant list and the PTM-site list hold exactly one item for
\* each 'Natural variant' and each 'Modified residue' feature, in ascending
\* position, items of equal position in feature-list order.
C20_OneItemPerFeatureSorted ==
    extracted.done =>
        /\ OnePerFeatureSorted(extracted.variants, NATURAL_VARIANT)
        /\ OnePerFeatureSorted(extracted.ptm.sites, MODIFIED_RESIDUE)

\* C20 witness: two variants at one position come before a third feature
\* that is a variant at a smaller position; the list starts with the third
\* and keeps the two in their order.
C20_Witness ==
    /\ extracted.done
    /\ Len(entryIn.features) = 3
    /\ \A i \in 1..3 : entryIn.features[i].type = NATURAL_VARIANT
    /\ entryIn.features[1].start = <<9>>
    /\ entryIn.features[2].start = <<9>>
    /\ entryIn.features[3].start = <<5>>
    /\ [k \in 1..3 |-> extracted.variants[k].description] = <<3, 1, 2>>

\* The non-empty texts of all the PTM comments of the entry, in encounter
\* order.
RECURSIVE AllPtmTexts(_)
AllPtmTexts(comments) ==
    IF comments = <<>> THEN <<>>
    ELSE LET NonEmpty(t) == t # <<>>
             here == IF Head(comments).commentType = "PTM"
                     THEN SelectSeq(Head(comments).texts, NonEmpty)
                     ELSE <<>>
         IN  here \o AllPtmTexts(Tail(comments))

\* C21: the PTM description is the space-joined concatenation of the cleaned
\* non-empty texts of all the PTM comments of the entry, in encounter order:
\* with two PTM comments or more, the texts of every one of them are in it.
C21_DescriptionOfAllPtmComments ==
    extracted.done =>
        LET all == AllPtmTexts(entryIn.comments)
        IN  extracted.ptm.description =
                Join([i \in 1..Len(all) |-> _clean_text(all[i])], " ")

\* C22: the in-process fallback map holds an entry only if the instance is
\* Degraded; set and set_raw write the map only when no primary store is in
\* use or when the primary-store write of that same call has failed, so the
\* map of a Connected instance is empty.
C22_FallbackOnlyWhenDegraded ==
    /\ [](redis # "None" => \A k \in Keys : ~memory[k].present)
    /\ [][\A k \in Keys :
            (memory'[k].present /\ memory'[k] # memory[k]) =>
                /\ IsCacheStep
                /\ last'.op \in WriteOps
                /\ last'.key = k
                /\ ~last'.wasConnected \/ last'.primaryFailed
                /\ redis' = "None"]_vars

\* C22 witness: a set of a Connected instance whose primary-store write
\* failed has written the fallback map, and the instance is Degraded.
C22_Witness ==
    /\ last.op = "set"
    /\ last.wasConnected
    /\ last.primaryFailed
    /\ redis = "None"
    /\ memory[last.key].present
    /\ memory[last.key].value = last.data

\* A read of a Degraded instance, and the key it reads.
DegradedRead == IsCacheStep /\ redis = "None" /\ last'.op \in ReadOps

\* C23 as stated: entries written while Connected are not carried over: a
\* Degraded get or get_raw of a key that has not been set since the
\* transition returns absent, and a set made after the transition is read
\* back, before its TTL expires, by every later get of that key.
C23_SetReadableByEveryLaterGet ==
    [][DegradedRead =>
        LET k == last'.key
        IN  /\ ~written[k].present => last'.result = "None"
            /\ (written[k].present /\ now < written[k].expire_at) =>
                 last'.result = written[k].value]_vars

\* C23, amended: as stated, for the gets made before the key is deleted; the
\* value read is that of the latest set, and after a delete of the key a get
\* returns absent until the key is set again.
C23_SetReadableUntilDeleted ==
    [][DegradedRead =>
        LET k == last'.key
        IN  /\ ~written[k].present => last'.result = "None"
            /\ (written[k].present /\ ~written[k].deleted
                /\ now < written[k].expire_at) =>
                 last'.result = written[k].value
            /\ (written[k].present /\ written[k].deleted) =>
                 last'.result = "None"]_vars

\* C23 witness: the primary store answers and still holds an unexpired entry
\* of the key, written while Connected; the Degraded instance has read the
\* key as absent, and has read back another key set after the transition.
C23_Witness ==
    /\ redis = "None"
    /\ redisUp
    /\ ~last.wasConnected
    /\ last.op \in ReadOps
    /\ last.result = "None"
    /\ ~last.expired
    /\ ~written[last.key].present
    /\ redisStore[last.key].present
    /\ now < redisStore[last.key].expire_at
    /\ \E k \in Keys : written[k].present /\ ~written[k].deleted
                          /\ memory[k].present
====
